---- MODULE Spec2Model ----
(***************************************************************************)
(* A model of build_tools/_therock_utils/pattern_match.py:                 *)
(*   RecursiveGlobPattern  glob -> regular expression -> full match        *)
(*   MatchPredicate        force_includes / includes / excludes cascade    *)
(*   PatternMatcher        add_basedir (scan), matches, copy_to            *)
(* Strings are sequences of one-character strings, so that re.escape,      *)
(* str.replace and the regular-expression match are computed character by  *)
(* character, as the code computes them.                                   *)
(***************************************************************************)
EXTENDS Integers, Sequences, FiniteSets, TLC

VARIABLES
    gphase,     \* SpecGlob: "init" | "matched" | "swapped"
    glob,       \* SpecGlob: the glob string given to RecursiveGlobPattern
    relpath,    \* SpecGlob: the relative path given to matches
    gres,       \* SpecGlob: result of RecursiveGlobPattern(glob).matches(relpath)
    glob2,      \* SpecGlob: glob with some `?` swapped for `*`
    gres2,      \* SpecGlob: result of RecursiveGlobPattern(glob2).matches(relpath)
    pphase,     \* SpecPred: "init" | "done"
    includes,   \* SpecPred: MatchPredicate.includes (sequence of globs)
    excludes,   \* SpecPred: MatchPredicate.excludes
    force_includes, \* SpecPred: MatchPredicate.force_includes
    match_path, \* SpecPred: the path given to MatchPredicate.matches
    pres,       \* SpecPred: result of MatchPredicate.matches
    pc,         \* Spec: where the PatternMatcher's caller / copy_to stands
    src,        \* Spec: the source tree under basedir, relpath -> entry
    all,        \* Spec: PatternMatcher.all, an insertion-ordered dict
    destprefix, \* Spec: copy_to's destprefix
    always_copy,\* Spec: copy_to's always_copy
    remove_dest,\* Spec: copy_to's remove_dest
    destdev,    \* Spec: the device (volume) destdir lives on
    fs,         \* Spec: the tree at destdir, path below destdir -> node
    pass,       \* Spec: number of copy_to calls started
    attempt,    \* Spec: copy_to's loop variable `attempt`
    waits,      \* Spec: the time.sleep arguments of this call, in tenths
    rmlog,      \* Spec: outcome of each shutil.rmtree attempt of this call
    cursor,     \* Spec: position of the matches() generator
    ops,        \* Spec: the filesystem operations of this call, <<relpath, op>>
    before,     \* Spec: fs as it was when this copy_to call started
    first,      \* Spec: fs as the first copy_to call left it
    calls,      \* SpecIndex: the insertion calls made so far, by kind
    last,       \* SpecIndex: relpath -> the entry most recently inserted for it
    yielded,    \* SpecIndex: what the last run of the matches() generator gave
    race,       \* SpecRace: process -> where its copy_to stands
    tpc,        \* SpecTests: where llamacpp_test.main stands
    platform,   \* SpecTests: os.name
    test_type,  \* SpecTests: the TEST_TYPE environment variable
    bindir,     \* SpecTests: the file names in LLAMA_BIN_DIR
    all_tests,  \* SpecTests: main's all_tests
    ran         \* SpecTests: the tests subprocess.run was called for

gvars == <<gphase, glob, relpath, gres, glob2, gres2>>
pvars == <<pphase, match_path, pres>>
lvars == <<includes, excludes, force_includes>>
fvars == <<pc, src, all, destprefix, always_copy, remove_dest, destdev, fs,
           pass, attempt, waits, rmlog, cursor, ops, before, first>>
ivars == <<calls, last, yielded>>
rvars == <<race>>
tvars == <<tpc, platform, test_type, bindir, all_tests, ran>>
vars == <<gvars, pvars, lvars, fvars, ivars, rvars, tvars>>

----------------------------------------------------------------------------
(* Bounds *)

\* Longest glob, in characters, drawn from GlobChars.
MaxGlobLen == 4
\* Most components of a glob drawn from GlobComps.
MaxComps == 3
\* Most segments of a relative path.
MaxSegs == 3
\* Longest pattern list of a MatchPredicate.
MaxPatterns == 2

----------------------------------------------------------------------------
(* Strings *)

RECURSIVE Join(_)
\* "/".join(parts)
Join(parts) ==
    IF Len(parts) = 0 THEN <<>>
    ELSE IF Len(parts) = 1 THEN parts[1]
    ELSE parts[1] \o <<"/">> \o Join(Tail(parts))

RECURSIVE Split(_)
\* s.split("/")
Split(s) ==
    IF \A i \in 1..Len(s) : s[i] # "/" THEN <<s>>
    ELSE LET k == CHOOSE i \in 1..Len(s) :
                      s[i] = "/" /\ \A j \in 1..(i-1) : s[j] # "/"
         IN <<SubSeq(s, 1, k-1)>> \o Split(SubSeq(s, k+1, Len(s)))

\* All sequences over S of length lo..hi.
SeqsOf(S, lo, hi) == UNION {[1..n -> S] : n \in lo..hi}

----------------------------------------------------------------------------
(* RecursiveGlobPattern.__init__ *)

\* The characters of the model's alphabet that re.escape prefixes with a backslash.
ReSpecial == {"*", "?", "."}

RECURSIVE ReEscape(_)
\* re.escape(glob)
ReEscape(s) ==
    IF s = <<>> THEN <<>>
    ELSE (IF Head(s) \in ReSpecial THEN <<"\\", Head(s)>> ELSE <<Head(s)>>)
         \o ReEscape(Tail(s))

RECURSIVE StrReplace(_, _, _)
\* str.replace(old, new): leftmost, non-overlapping occurrences.
StrReplace(s, old, new) ==
    IF Len(s) < Len(old) THEN s
    ELSE IF SubSeq(s, 1, Len(old)) = old
         THEN new \o StrReplace(SubSeq(s, Len(old) + 1, Len(s)), old, new)
         ELSE <<Head(s)>> \o StrReplace(Tail(s), old, new)

\* The three regular-expression fragments the code substitutes.
ReOptDirs == <<"(", ".", "*", "/", ")", "?">>      \* (.*/)?
ReOptTail == <<"(", "/", ".", "*", ")", "?">>      \* (/.*)?
ReNonSep  == <<"[", "^", "/", "]", "*">>           \* [^/]*
EscStar   == <<"\\", "*">>
EscQuest  == <<"\\", "?">>

\* A plausible slip: the `?` substitution of line 24 is missing, so an escaped
\* `?` stays a literal question mark.
CompilePatternNoQuest(g) ==
    LET p0 == <<"^">> \o ReEscape(g) \o <<"$">>
        p1 == StrReplace(p0, <<"/">> \o EscStar \o EscStar \o <<"/">>,
                             <<"/">> \o ReOptDirs)
        p2 == StrReplace(p1, <<"^">> \o EscStar \o EscStar \o <<"/">>,
                             <<"^">> \o ReOptDirs)
        p3 == StrReplace(p2, <<"/">> \o EscStar \o EscStar \o <<"$">>,
                             ReOptTail \o <<"$">>)
        p4 == StrReplace(p3, EscStar, ReNonSep)
    IN p4

\* Lines 14-24: the pattern string handed to re.compile.
CompilePattern(g) ==
    LET p0 == <<"^">> \o ReEscape(g) \o <<"$">>
        p1 == StrReplace(p0, <<"/">> \o EscStar \o EscStar \o <<"/">>,
                             <<"/">> \o ReOptDirs)
        p2 == StrReplace(p1, <<"^">> \o EscStar \o EscStar \o <<"/">>,
                             <<"^">> \o ReOptDirs)
        p3 == StrReplace(p2, <<"/">> \o EscStar \o EscStar \o <<"$">>,
                             ReOptTail \o <<"$">>)
        p4 == StrReplace(p3, EscStar, ReNonSep)
        p5 == StrReplace(p4, EscQuest, ReNonSep)
    IN p5

----------------------------------------------------------------------------
(* re.compile / Pattern.match on the patterns CompilePattern produces *)

IsPrefix(p, s) == Len(p) <= Len(s) /\ SubSeq(s, 1, Len(p)) = p

RECURSIVE ReParse(_)
\* re.compile: the pattern string as a sequence of atoms.
ReParse(p) ==
    IF p = <<>> THEN <<>>
    ELSE IF Head(p) = "\\" /\ Len(p) >= 2
         THEN <<[t |-> "lit", c |-> p[2]]>> \o ReParse(SubSeq(p, 3, Len(p)))
    ELSE IF IsPrefix(ReOptDirs, p)
         THEN <<[t |-> "optdirs", c |-> ""]>> \o ReParse(SubSeq(p, 7, Len(p)))
    ELSE IF IsPrefix(ReOptTail, p)
         THEN <<[t |-> "opttail", c |-> ""]>> \o ReParse(SubSeq(p, 7, Len(p)))
    ELSE IF IsPrefix(ReNonSep, p)
         THEN <<[t |-> "nonsep", c |-> ""]>> \o ReParse(SubSeq(p, 6, Len(p)))
    ELSE IF Head(p) = "^"
         THEN <<[t |-> "bol", c |-> ""]>> \o ReParse(Tail(p))
    ELSE IF Head(p) = "$"
         THEN <<[t |-> "eol", c |-> ""]>> \o ReParse(Tail(p))
    ELSE <<[t |-> "lit", c |-> Head(p)]>> \o ReParse(Tail(p))

RECURSIVE ReMatchFrom(_, _, _, _)
\* Whether atoms[i..] can match s starting at position j (a backtracking
\* matcher succeeds exactly when some way of matching exists).
ReMatchFrom(atoms, i, s, j) ==
    IF i > Len(atoms) THEN TRUE
    ELSE LET a == atoms[i] IN
      CASE a.t = "bol" -> j = 1 /\ ReMatchFrom(atoms, i + 1, s, j)
        [] a.t = "eol" -> j = Len(s) + 1 /\ ReMatchFrom(atoms, i + 1, s, j)
        [] a.t = "lit" -> j <= Len(s) /\ s[j] = a.c
                          /\ ReMatchFrom(atoms, i + 1, s, j + 1)
        \* [^/]* : k characters, none of them the separator
        [] a.t = "nonsep" ->
              \E k \in 0..(Len(s) + 1 - j) :
                  /\ \A m \in j..(j + k - 1) : s[m] # "/"
                  /\ ReMatchFrom(atoms, i + 1, s, j + k)
        \* (.*/)? : nothing, or any k characters followed by a separator
        [] a.t = "optdirs" ->
              \/ ReMatchFrom(atoms, i + 1, s, j)
              \/ \E k \in j..Len(s) :
                     s[k] = "/" /\ ReMatchFrom(atoms, i + 1, s, k + 1)
        \* (/.*)? : nothing, or a separator followed by any k characters
        [] a.t = "opttail" ->
              \/ ReMatchFrom(atoms, i + 1, s, j)
              \/ /\ j <= Len(s) /\ s[j] = "/"
                 /\ \E k \in (j + 1)..(Len(s) + 1) :
                        ReMatchFrom(atoms, i + 1, s, k)

\* RecursiveGlobPattern(g).matches(path, direntry), lines 27-29.
GlobMatches(g, path) == ReMatchFrom(ReParse(CompilePattern(g)), 1, path, 1)

----------------------------------------------------------------------------
(* MatchPredicate *)

RECURSIVE AnyPatternMatches(_, _)
\* `for pattern in patterns: if pattern.matches(path, direntry): <hit>`
AnyPatternMatches(patterns, path) ==
    IF patterns = <<>> THEN FALSE
    ELSE IF GlobMatches(Head(patterns), path) THEN TRUE
    ELSE AnyPatternMatches(Tail(patterns), path)

\* A plausible slip: the exclude loop runs before the force-include loop.
PredicateMatchesExcludeFirst(inc, exc, frc, path) ==
    IF AnyPatternMatches(exc, path) THEN FALSE
    ELSE IF frc # <<>> /\ AnyPatternMatches(frc, path) THEN TRUE
    ELSE IF inc # <<>> /\ ~AnyPatternMatches(inc, path) THEN FALSE
    ELSE TRUE

\* MatchPredicate.matches, lines 43-60.
PredicateMatches(inc, exc, frc, path) ==
    IF frc # <<>> /\ AnyPatternMatches(frc, path) THEN TRUE
    ELSE IF inc # <<>> /\ ~AnyPatternMatches(inc, path) THEN FALSE
    ELSE IF AnyPatternMatches(exc, path) THEN FALSE
    ELSE TRUE

----------------------------------------------------------------------------
(* Inputs of the two pure-function specifications *)

GlobChars == {"a", "/", "*", "?"}
GlobComps == {<<"a">>, <<"b">>, <<"*", "*">>}
PathSegs  == {<<"a">>, <<"b">>, <<"a", "b">>}

G_lib_so  == <<"l","i","b","/","*","*","/","*",".","s","o">>   \* lib/**/*.so
G_a_rec   == <<"a","/","*","*">>                               \* a/**
G_aqb     == <<"a","?","b">>                                   \* a?b
P_lib_x   == <<"l","i","b","/","x",".","s","o">>               \* lib/x.so
P_lib_abx == <<"l","i","b","/","a","/","b","/","x",".","s","o">>  \* lib/a/b/x.so
P_libx_x  == <<"l","i","b","x","/","x",".","s","o">>           \* libx/x.so
P_d_txt   == <<"d",".","t","x","t">>                           \* d.txt
P_axb     == <<"a","x","b">>                                   \* axb
P_axyb    == <<"a","x","y","b">>                               \* axyb

GlobInputs ==
    SeqsOf(GlobChars, 1, MaxGlobLen)
    \cup {Join(cs) : cs \in SeqsOf(GlobComps, 1, MaxComps)}
    \cup {G_lib_so, G_a_rec, G_aqb}

PathInputs ==
    {Join(ss) : ss \in SeqsOf(PathSegs, 1, MaxSegs)}
    \cup {P_lib_x, P_lib_abx, P_libx_x, P_d_txt, P_axb, P_axyb}

\* Pattern pools and paths of the predicate specification.
G_any_h   == <<"*","*","/","*",".","h">>       \* **/*.h
G_i_rec   == <<"i","/","*","*">>               \* i/**
G_i_star  == <<"i","/","*">>                   \* i/*
G_any_ah  == <<"*","*","/","a",".","h">>       \* **/a.h
G_i_ah    == <<"i","/","a",".","h">>           \* i/a.h
G_star_c  == <<"*",".","c">>                   \* *.c
IncludeGlobs == {G_any_h, G_i_rec}
ExcludeGlobs == {G_i_star, G_any_ah}
ForceGlobs   == {G_i_ah, G_star_c}
PredPaths ==
    { <<"a",".","h">>, <<"a",".","c">>, <<"b",".","h">>, <<"i">>,
      <<"i","/","a",".","h">>, <<"i","/","a",".","c">>,
      <<"i","/","b",".","h">>, <<"i","/","j","/","a",".","h">> }

----------------------------------------------------------------------------
(* SpecGlob: RecursiveGlobPattern on drawn globs and paths *)

\* The positions of g holding `?`.
QuestPositions(g) == {i \in 1..Len(g) : g[i] = "?"}

\* g with the `?` at the positions S written as `*`.
SwapQuest(g, S) == [i \in 1..Len(g) |-> IF i \in S THEN "*" ELSE g[i]]

GInit ==
    /\ gphase = "init"
    /\ glob \in GlobInputs
    /\ relpath \in PathInputs
    /\ gres = FALSE
    /\ glob2 = <<>>
    /\ gres2 = FALSE
    \* MatchPredicate is not in use
    /\ pphase = "off" /\ includes = <<>> /\ excludes = <<>>
    /\ force_includes = <<>> /\ match_path = <<>> /\ pres = FALSE
    \* no PatternMatcher is in use
    /\ pc = "off" /\ src = <<>> /\ all = <<>> /\ destprefix = <<>>
    /\ always_copy = FALSE /\ remove_dest = FALSE /\ destdev = 0 /\ fs = <<>>
    /\ pass = 0 /\ attempt = 0 /\ waits = <<>> /\ rmlog = <<>> /\ cursor = 0
    /\ ops = {} /\ before = <<>> /\ first = <<>>
    /\ calls = <<>> /\ last = <<>> /\ yielded = <<>> /\ race = <<>>
    /\ tpc = "off" /\ platform = "" /\ test_type = "" /\ bindir = {}
    /\ all_tests = {} /\ ran = {}

\* RecursiveGlobPattern(glob).matches(relpath)
Match ==
    /\ gphase = "init"
    /\ gphase' = "matched"
    /\ gres' = GlobMatches(glob, relpath)
    /\ UNCHANGED <<glob, relpath, glob2, gres2, pvars, lvars, fvars, ivars, rvars, tvars>>

\* The same path against glob and against glob with some `?` written as `*`.
SwapMatch ==
    /\ gphase = "init"
    /\ \E S \in SUBSET QuestPositions(glob) :
          /\ S # {}
          /\ glob2' = SwapQuest(glob, S)
    /\ gphase' = "swapped"
    /\ gres' = GlobMatches(glob, relpath)
    /\ gres2' = GlobMatches(glob2', relpath)
    /\ UNCHANGED <<glob, relpath, pvars, lvars, fvars, ivars, rvars, tvars>>

GNext == Match \/ SwapMatch

SpecGlob == GInit /\ [][GNext]_vars

----------------------------------------------------------------------------
(* SpecPred: MatchPredicate on drawn pattern lists and paths *)

PInit ==
    /\ pphase = "init"
    /\ includes \in SeqsOf(IncludeGlobs, 0, MaxPatterns)
    /\ excludes \in SeqsOf(ExcludeGlobs, 0, MaxPatterns)
    /\ force_includes \in SeqsOf(ForceGlobs, 0, MaxPatterns)
    /\ match_path \in PredPaths
    /\ pres = FALSE
    \* no glob is matched on its own
    /\ gphase = "off" /\ glob = <<>> /\ relpath = <<>>
    /\ gres = FALSE /\ glob2 = <<>> /\ gres2 = FALSE
    \* no PatternMatcher is in use
    /\ pc = "off" /\ src = <<>> /\ all = <<>> /\ destprefix = <<>>
    /\ always_copy = FALSE /\ remove_dest = FALSE /\ destdev = 0 /\ fs = <<>>
    /\ pass = 0 /\ attempt = 0 /\ waits = <<>> /\ rmlog = <<>> /\ cursor = 0
    /\ ops = {} /\ before = <<>> /\ first = <<>>
    /\ calls = <<>> /\ last = <<>> /\ yielded = <<>> /\ race = <<>>
    /\ tpc = "off" /\ platform = "" /\ test_type = "" /\ bindir = {}
    /\ all_tests = {} /\ ran = {}

\* MatchPredicate(includes, excludes, force_includes).matches(match_path)
Matches ==
    /\ pphase = "init"
    /\ pphase' = "done"
    /\ pres' = PredicateMatches(includes, excludes, force_includes, match_path)
    /\ UNCHANGED <<match_path, lvars, gvars, fvars, ivars, rvars, tvars>>

PNext == Matches

SpecPred == PInit /\ [][PNext]_vars

----------------------------------------------------------------------------
(* The filesystem as copy_to sees it *)

\* PatternMatcher.max_attempts
MaxAttempts == 5
\* PatternMatcher.retry_delay_seconds, in tenths of a second
RetryDelayTenths == 2
\* Most copy_to calls in one behaviour.
MaxPasses == 2

\* The device the source tree lives on.
SrcDev == 0

\* Relative paths of the source tree.
R_a  == <<"a">>
R_ab == <<"a", "/", "b">>
R_c  == <<"c">>
RelPaths == {R_a, R_ab, R_c}
\* A path below destdir that no source entry maps to.
R_z  == <<"z">>
\* destdir itself, as a path below destdir.
Root == <<>>
DestPrefixes == {<<>>, <<"p", "/">>}
DestPaths ==
    {Root, R_z, <<"p">>} \cup {pre \o r : pre \in DestPrefixes, r \in RelPaths}

\* PurePosixPath.parent
Parent(p) ==
    IF \A i \in 1..Len(p) : p[i] # "/" THEN Root
    ELSE LET k == CHOOSE i \in 1..Len(p) :
                      p[i] = "/" /\ \A j \in (i+1)..Len(p) : p[j] # "/"
         IN SubSeq(p, 1, k - 1)

\* p lies strictly below q.
IsBelow(p, q) ==
    p # q /\ (q = Root \/ (Len(p) > Len(q) + 1 /\ SubSeq(p, 1, Len(q) + 1) = q \o <<"/">>))

\* A filesystem object. kind "none" is the absence of one; born is the number
\* of the copy_to call that created the name, 0 for what was there before.
NoNode == [kind |-> "none", dev |-> 0, ino |-> 0, data |-> 0, target |-> "", born |-> 0]
DirNode(g) == [kind |-> "dir", dev |-> 0, ino |-> 0, data |-> 0, target |-> "", born |-> g]
FileNode(d, i, c, g) == [kind |-> "file", dev |-> d, ino |-> i, data |-> c, target |-> "", born |-> g]
LinkNode(t, g) == [kind |-> "symlink", dev |-> 0, ino |-> 0, data |-> 0, target |-> t, born |-> g]

\* Link targets, named for what they resolve to.
DirTargets == {"t_dir", "old_dir"}
FileTargets == {"t_file"}

\* What following the symlinks at a node ends at: "dir", "file" or "none".
Resolved(n) ==
    IF n.kind = "symlink"
    THEN (IF n.target \in DirTargets THEN "dir"
          ELSE IF n.target \in FileTargets THEN "file" ELSE "none")
    ELSE n.kind

\* os.DirEntry.is_dir() (follows symlinks) and os.DirEntry.is_symlink()
EntryIsDir(e) == Resolved(e) = "dir"
EntryIsSymlink(e) == e.kind = "symlink"

\* A plausible slip: `and not direntry.is_symlink()` is missing on line 146.
EntryBranchFollowsLinks(e) ==
    IF EntryIsDir(e) THEN "dir"
    ELSE IF EntryIsSymlink(e) THEN "symlink"
    ELSE "file"

\* Lines 146, 151, 164: the branch copy_to takes for an entry.
EntryBranch(e) ==
    IF EntryIsDir(e) /\ ~EntryIsSymlink(e) THEN "dir"
    ELSE IF EntryIsSymlink(e) THEN "symlink"
    ELSE "file"

\* Path.exists() (follows symlinks) and Path.is_symlink()
PathExists(f, p) == Resolved(f[p]) # "none"
PathIsSymlink(f, p) == f[p].kind = "symlink"
\* Path.is_dir() (follows symlinks)
PathIsDir(f, p) == Resolved(f[p]) = "dir"

\* The result of a filesystem call: whether it raised, and the tree it left.
Ok(f) == [ok |-> TRUE, fs |-> f]
Raise(f) == [ok |-> FALSE, fs |-> f]

RECURSIVE Mkdir(_, _, _)
\* Path.mkdir(parents=True, exist_ok=True)
Mkdir(f, p, g) ==
    IF f[p].kind # "none"
    THEN (IF PathIsDir(f, p) THEN Ok(f) ELSE Raise(f))     \* FileExistsError
    ELSE IF p = Root THEN Ok([f EXCEPT ![p] = DirNode(g)])
    ELSE IF PathIsDir(f, Parent(p)) THEN Ok([f EXCEPT ![p] = DirNode(g)])
    ELSE IF f[Parent(p)].kind # "none" THEN Raise(f)        \* NotADirectoryError
    ELSE LET r == Mkdir(f, Parent(p), g)
         IN IF r.ok THEN Ok([r.fs EXCEPT ![p] = DirNode(g)]) ELSE r

\* os.unlink(destpath)
Unlink(f, p) ==
    IF f[p].kind \in {"file", "symlink"} THEN Ok([f EXCEPT ![p] = NoNode])
    ELSE Raise(f)                   \* IsADirectoryError, FileNotFoundError

\* os.symlink(targetpath, destpath)
Symlink(f, t, p, g) ==
    IF f[p].kind = "none" /\ PathIsDir(f, Parent(p))
    THEN Ok([f EXCEPT ![p] = LinkNode(t, g)])
    ELSE Raise(f)                   \* FileExistsError, FileNotFoundError

\* os.link(direntry.path, destpath, follow_symlinks=False): the new name is
\* the source's file itself; it needs a free name on the source's device.
Link(f, e, p, dev, g) ==
    IF f[p].kind = "none" /\ PathIsDir(f, Parent(p)) /\ dev = SrcDev
    THEN Ok([f EXCEPT ![p] = FileNode(SrcDev, e.ino, e.data, g)])
    ELSE Raise(f)                   \* OSError: EXDEV, EEXIST, ...

\* The inode number a copy of the source file e gets on the destination.
CopyIno(e) == 20 + e.ino

\* A plausible slip: the fallback is announced but the copy is not made.
CopyNothing(f, e, p, dev, g) == Ok(f)

\* shutil.copy2(direntry.path, destpath, follow_symlinks=False) of a regular file
Copy(f, e, p, dev, g) ==
    IF f[p].kind = "file" /\ f[p].dev = SrcDev /\ f[p].ino = e.ino
    THEN Raise(f)                    \* SameFileError: destpath is the source
    ELSE IF f[p].kind = "none"
    THEN (IF PathIsDir(f, Parent(p))
          THEN Ok([f EXCEPT ![p] = FileNode(dev, CopyIno(e), e.data, g)])
          ELSE Raise(f))
    ELSE IF f[p].kind = "file" THEN Ok([f EXCEPT ![p].data = e.data])
    ELSE IF f[p].kind = "dir" THEN Raise(f)      \* IsADirectoryError
    ELSE Ok(f)                       \* written through the link, outside destdir

\* A plausible slip: files below the top level of destdir are left in place.
RmtreeTopLevelOnly(f) ==
    [p \in DestPaths |->
        IF f[p].kind # "none" /\ Parent(p) # Root /\ f[p].kind # "dir" THEN f[p]
        ELSE IF f[p].kind = "dir" /\ \E q \in DestPaths :
                  IsBelow(q, p) /\ Parent(q) # Root /\ f[q].kind \notin {"none", "dir"}
             THEN f[p]
        ELSE NoNode]

\* shutil.rmtree(destdir), when it succeeds
Rmtree(f) == [p \in DestPaths |-> NoNode]

\* shutil.rmtree(destdir), when it raises: what it had removed by then. The
\* entry it could not remove, and the directories above it, stay.
RmtreePartial(f, keep) ==
    [p \in DestPaths |-> IF p = keep \/ IsBelow(keep, p) THEN f[p] ELSE NoNode]

----------------------------------------------------------------------------
(* PatternMatcher *)

RECURSIVE ScanChildren(_, _, _, _)
\* add_basedir.scan_children(rootpath, prefix), lines 88-98: the insertions it
\* makes, in order. order is the order os.scandir yields names in; i is the
\* position in it.
ScanChildren(tree, prefix, order, i) ==
    IF i > Len(order) THEN <<>>
    ELSE LET rp == prefix \o order[i] IN
         IF rp \in RelPaths /\ tree[rp].kind # "none"
         THEN (IF tree[rp].kind = "dir"       \* is_dir(follow_symlinks=False)
               THEN <<[path |-> rp, e |-> tree[rp]]>>
                    \o ScanChildren(tree, rp \o <<"/">>, order, 1)
               ELSE <<[path |-> rp, e |-> tree[rp]]>>)
              \o ScanChildren(tree, prefix, order, i + 1)
         ELSE ScanChildren(tree, prefix, order, i + 1)

\* A plausible slip: all.setdefault(relpath, entry), the first insertion wins.
DictSetFirstWins(d, k, v) ==
    IF \E i \in 1..Len(d) : d[i].path = k THEN d
    ELSE Append(d, [path |-> k, e |-> v])

\* all[relpath] = entry on an insertion-ordered dict: a known key keeps its
\* place and takes the new value, a new key goes last.
DictSet(d, k, v) ==
    IF \E i \in 1..Len(d) : d[i].path = k
    THEN [i \in 1..Len(d) |-> IF d[i].path = k THEN [path |-> k, e |-> v] ELSE d[i]]
    ELSE Append(d, [path |-> k, e |-> v])

RECURSIVE DictSetAll(_, _)
DictSetAll(d, ins) ==
    IF ins = <<>> THEN d
    ELSE DictSetAll(DictSet(d, Head(ins).path, Head(ins).e), Tail(ins))

\* A plausible slip: matches() yields every entry, accepted or not.
SelectionUnfiltered(d, inc, exc, frc) == d

\* PatternMatcher.matches(), lines 105-108: the entries it yields, in order.
Selection(d, inc, exc, frc) ==
    LET Accepts(x) == PredicateMatches(inc, exc, frc, x.path)
    IN SelectSeq(d, Accepts)

\* destdir / PurePosixPath(destprefix + relpath), as a path below destdir
DestPath(prefix, rp) == prefix \o rp

\* A plausible slip: a bare `except: pass` around the loop body, so that a
\* failed entry is passed over and the loop goes on.
DidSwallowed(r, o) == [ok |-> TRUE, fs |-> r.fs, ops |-> o]

\* What materializing one entry did: whether it raised, the tree it left, and
\* the operations it performed.
Did(r, o) == [ok |-> r.ok, fs |-> r.fs, ops |-> o]

\* Lines 146-150
MaterializeDir(f, p, g) ==
    LET m == Mkdir(f, p, g) IN Did(m, IF m.ok THEN {"mkdir"} ELSE {})

\* Lines 151-163
MaterializeSymlink(f, e, p, rd, g) ==
    LET occupied == ~rd /\ (PathExists(f, p) \/ PathIsSymlink(f, p))
        u == IF occupied THEN Unlink(f, p) ELSE Ok(f)
        uops == IF occupied /\ u.ok THEN {"unlink"} ELSE {}
    IN IF ~u.ok THEN Did(u, {})
       ELSE LET m == Mkdir(u.fs, Parent(p), g) IN
            IF ~m.ok THEN Did(m, uops)
            ELSE LET y == Symlink(m.fs, e.target, p, g)
                 IN Did(y, uops \cup (IF y.ok THEN {"symlink"} ELSE {}))

\* A plausible slip: the identity check is dropped, nothing is ever skipped.
ShouldSkipNever(f, e, p, ac) == FALSE

\* Lines 173-177: the destination exists, always_copy is off, and st_ino of
\* the destination equals st_ino of the source.
ShouldSkip(f, e, p, ac) ==
    PathExists(f, p) /\ ~ac /\ f[p].ino = e.ino

\* Lines 164-216
MaterializeFile(f, e, p, rd, ac, dev, g) ==
    IF ShouldSkip(f, e, p, ac) THEN Did(Ok(f), {"skip"})
    ELSE
    LET occupied == ~rd /\ (PathExists(f, p) \/ PathIsSymlink(f, p))
        u == IF occupied THEN Unlink(f, p) ELSE Ok(f)
        uops == IF occupied /\ u.ok THEN {"unlink"} ELSE {}
    IN IF ~u.ok THEN Did(u, {})
       ELSE LET m == Mkdir(u.fs, Parent(p), g) IN
            IF ~m.ok THEN Did(m, uops)
            ELSE LET l == IF ac THEN Raise(m.fs) ELSE Link(m.fs, e, p, dev, g)
                     linked_file == ~ac /\ l.ok
                     lops == IF ac THEN {}
                             ELSE IF l.ok THEN {"link"} ELSE {"linkfail"}
                 IN IF linked_file THEN Did(l, uops \cup lops)
                    ELSE LET c == Copy(m.fs, e, p, dev, g)
                         IN Did(c, uops \cup lops
                                   \cup (IF c.ok THEN {"copy"} ELSE {}))

\* Lines 144-216: the body of copy_to's loop for one (relpath, direntry).
Materialize(f, x, prefix, rd, ac, dev, g) ==
    LET p == DestPath(prefix, x.path)
        b == EntryBranch(x.e)
    IN IF b = "dir" THEN MaterializeDir(f, p, g)
       ELSE IF b = "symlink" THEN MaterializeSymlink(f, x.e, p, rd, g)
       ELSE MaterializeFile(f, x.e, p, rd, ac, dev, g)

\* A plausible slip: the `raise` of line 140 is missing.
RaisesAfterSleepNever(k) == FALSE

\* Line 134: after the sleep, the PermissionError is re-raised on the last attempt.
RaisesAfterSleep(k) == k = MaxAttempts - 1

\* Line 127: wait_time, in tenths of a second
WaitTime(k) == RetryDelayTenths * (k + 2)

----------------------------------------------------------------------------
(* Spec: one PatternMatcher, one scanned base directory, copy_to calls *)

\* The inode number and content of the regular file at a source path.
SrcIno(rp) == IF rp = R_a THEN 1 ELSE IF rp = R_ab THEN 2 ELSE 3
SrcFile(rp) == FileNode(SrcDev, SrcIno(rp), 100 + SrcIno(rp), 0)

SrcTree(na, nab, nc) ==
    [rp \in RelPaths |-> IF rp = R_a THEN na ELSE IF rp = R_ab THEN nab ELSE nc]

\* The source trees: a is a directory, a file or a link to a directory; a/b,
\* when a is a directory or leads to one, a file or a link; c a file or a link.
SrcTrees ==
    {SrcTree(t[1], t[2], t[3]) :
        t \in {u \in {DirNode(0), SrcFile(R_a), LinkNode("t_dir", 0)}
                    \X {NoNode, SrcFile(R_ab), LinkNode("t_file", 0),
                        LinkNode("t_missing", 0)}
                    \X {SrcFile(R_c), LinkNode("t_dir", 0)} :
                  u[2] # NoNode => u[1] \in {DirNode(0), LinkNode("t_dir", 0)}}}

\* An older file on the destination's device.
OldFile(dev) == FileNode(dev, 9, 0, 0)
\* An older file whose inode number is that of the source file at rp; two
\* files of one device never share a number.
ClashFiles(dev, rp) == IF dev = SrcDev THEN {} ELSE {FileNode(dev, SrcIno(rp), 0, 0)}

\* destdir holding an older file z and the nodes na, nab, nc where the
\* entries a, a/b and c will go.
DestTree(prefix, dev, na, nab, nc) ==
    [p \in DestPaths |->
        IF p = Root THEN DirNode(0)
        ELSE IF p = R_z THEN OldFile(dev)
        ELSE IF p = DestPath(prefix, R_a) THEN na
        ELSE IF p = DestPath(prefix, R_ab) THEN nab
        ELSE IF p = DestPath(prefix, R_c) THEN nc
        ELSE IF p = <<"p">> /\ prefix # <<>> THEN DirNode(0)
        ELSE NoNode]

\* The trees destdir may hold before the first call: nothing at all (destdir
\* does not exist), or a directory with older content. A call that resets
\* the destination is drawn fewer of them: it removes whatever is there.
DestTrees(prefix, dev, rd) ==
    {[p \in DestPaths |-> NoNode]} \cup
    {DestTree(prefix, dev, t[1], t[2], t[3]) :
        t \in {u \in {NoNode, DirNode(0), OldFile(dev), LinkNode("old_dir", 0)}
                    \X ({NoNode, DirNode(0), OldFile(dev),
                         LinkNode("old_missing", 0)} \cup ClashFiles(dev, R_ab))
                    \X ({NoNode, DirNode(0), OldFile(dev)} \cup ClashFiles(dev, R_c)) :
                  /\ u[2] # NoNode => u[1] = DirNode(0)
                  /\ rd => u \in {<<NoNode, NoNode, NoNode>>,
                                  <<DirNode(0), OldFile(dev), OldFile(dev)>>,
                                  <<OldFile(dev), NoNode, DirNode(0)>>}}}

G_a_star == <<"a", "/", "*">>                  \* a/*
\* The pattern lists the PatternMatcher is built with.
PatternLists ==
    { [inc |-> <<>>, exc |-> <<>>, frc |-> <<>>],
      [inc |-> <<G_a_star>>, exc |-> <<>>, frc |-> <<>>],
      [inc |-> <<>>, exc |-> <<G_a_rec>>, frc |-> <<>>] }

\* The orders os.scandir may yield the names of a directory in.
ScanOrders == { <<R_a, <<"b">>, R_c>>, <<R_c, <<"b">>, R_a>> }

Init ==
    /\ pc = "new"
    /\ src \in SrcTrees
    /\ all = <<>>
    /\ \E pl \in PatternLists :
          includes = pl.inc /\ excludes = pl.exc /\ force_includes = pl.frc
    /\ destprefix \in DestPrefixes
    /\ always_copy \in BOOLEAN
    /\ remove_dest \in BOOLEAN
    /\ destdev \in {SrcDev, 1}
    /\ fs \in DestTrees(destprefix, destdev, remove_dest)
    /\ pass = 0
    /\ attempt = 0
    /\ waits = <<>>
    /\ rmlog = <<>>
    /\ cursor = 0
    /\ ops = {}
    /\ before = fs
    /\ first = fs
    \* no glob or predicate is evaluated on its own
    /\ gphase = "off" /\ glob = <<>> /\ relpath = <<>>
    /\ gres = FALSE /\ glob2 = <<>> /\ gres2 = FALSE
    /\ pphase = "off" /\ match_path = <<>> /\ pres = FALSE
    \* the insertion history is not kept
    /\ calls = <<>> /\ last = <<>> /\ yielded = <<>> /\ race = <<>>
    /\ tpc = "off" /\ platform = "" /\ test_type = "" /\ bindir = {}
    /\ all_tests = {} /\ ran = {}

\* PatternMatcher.add_basedir(basedir), lines 80-100
AddBasedir ==
    /\ pc = "new"
    /\ \E order \in ScanOrders :
          all' = DictSetAll(all, ScanChildren(src, <<>>, order, 1))
    /\ pc' = "idle"
    /\ UNCHANGED <<src, destprefix, always_copy, remove_dest, destdev, fs, pass,
                   attempt, waits, rmlog, cursor, ops, before, first,
                   gvars, pvars, lvars, ivars, rvars, tvars>>

\* copy_to is called: line 119
CopyTo ==
    /\ pc \in {"idle", "done"}
    /\ pass < MaxPasses
    /\ pass' = pass + 1
    /\ before' = fs
    /\ attempt' = 0
    /\ waits' = <<>>
    /\ rmlog' = <<>>
    /\ cursor' = 1
    /\ ops' = {}
    /\ pc' = IF remove_dest /\ PathExists(fs, Root) THEN "rmtree" ELSE "mkroot"
    /\ UNCHANGED <<src, all, destprefix, always_copy, remove_dest, destdev, fs,
                   first, gvars, pvars, lvars, ivars, rvars, tvars>>

\* Lines 121-125: shutil.rmtree(destdir) succeeds; break
RmtreeOk ==
    /\ pc = "rmtree"
    /\ fs' = Rmtree(fs)
    /\ rmlog' = Append(rmlog, "ok")
    /\ pc' = "mkroot"
    /\ UNCHANGED <<src, all, destprefix, always_copy, remove_dest, destdev, pass,
                   attempt, waits, cursor, ops, before, first, gvars, pvars, lvars, ivars, rvars, tvars>>

\* Lines 126-140: shutil.rmtree(destdir) raises PermissionError
RmtreePermissionError ==
    /\ pc = "rmtree"
    /\ \/ fs' = fs
       \/ fs[R_z].kind # "none" /\ fs' = RmtreePartial(fs, R_z)
    /\ rmlog' = Append(rmlog, "perm")
    /\ waits' = Append(waits, WaitTime(attempt))
    /\ IF RaisesAfterSleep(attempt)
       THEN pc' = "raised" /\ attempt' = attempt
       ELSE IF attempt + 1 < MaxAttempts
            THEN pc' = "rmtree" /\ attempt' = attempt + 1
            ELSE pc' = "mkroot" /\ attempt' = attempt    \* range() is exhausted
    /\ UNCHANGED <<src, all, destprefix, always_copy, remove_dest, destdev, pass,
                   cursor, ops, before, first, gvars, pvars, lvars, ivars, rvars, tvars>>

\* Lines 121-122: shutil.rmtree(destdir) raises anything else
RmtreeOtherError ==
    /\ pc = "rmtree"
    /\ \/ fs' = fs
       \/ fs[R_z].kind # "none" /\ fs' = RmtreePartial(fs, R_z)
    /\ rmlog' = Append(rmlog, "other")
    /\ pc' = "raised"
    /\ UNCHANGED <<src, all, destprefix, always_copy, remove_dest, destdev, pass,
                   attempt, waits, cursor, ops, before, first, gvars, pvars, lvars, ivars, rvars, tvars>>

\* Line 141: destdir.mkdir(parents=True, exist_ok=True)
MkdirDest ==
    /\ pc = "mkroot"
    /\ LET m == Mkdir(fs, Root, pass)
       IN /\ fs' = m.fs
          /\ pc' = IF m.ok THEN "entries" ELSE "raised"
    /\ UNCHANGED <<src, all, destprefix, always_copy, remove_dest, destdev, pass,
                   attempt, waits, rmlog, cursor, ops, before, first,
                   gvars, pvars, lvars, ivars, rvars, tvars>>

\* Lines 143-216: one turn of the loop over self.matches()
MaterializeNext ==
    /\ pc = "entries"
    /\ LET sel == Selection(all, includes, excludes, force_includes) IN
       /\ cursor <= Len(sel)
       /\ LET x == sel[cursor]
              r == Materialize(fs, x, destprefix, remove_dest, always_copy, destdev, pass)
          IN /\ fs' = r.fs
             /\ ops' = ops \cup {<<x.path, o>> : o \in r.ops}
             /\ pc' = IF r.ok THEN "entries" ELSE "raised"
             /\ cursor' = IF r.ok THEN cursor + 1 ELSE cursor
    /\ UNCHANGED <<src, all, destprefix, always_copy, remove_dest, destdev, pass,
                   attempt, waits, rmlog, before, first, gvars, pvars, lvars, ivars, rvars, tvars>>

\* Line 143: self.matches() is exhausted, copy_to returns
Return ==
    /\ pc = "entries"
    /\ cursor > Len(Selection(all, includes, excludes, force_includes))
    /\ pc' = "done"
    /\ first' = IF pass = 1 THEN fs ELSE first
    /\ UNCHANGED <<src, all, destprefix, always_copy, remove_dest, destdev, fs,
                   pass, attempt, waits, rmlog, cursor, ops, before,
                   gvars, pvars, lvars, ivars, rvars, tvars>>

Next ==
    \/ AddBasedir
    \/ CopyTo
    \/ RmtreeOk
    \/ RmtreePermissionError
    \/ RmtreeOtherError
    \/ MkdirDest
    \/ MaterializeNext
    \/ Return

Spec == Init /\ [][Next]_vars

----------------------------------------------------------------------------
(* SpecIndex: one PatternMatcher, any base directories and entries merged *)

\* Most add_basedir and add_entry calls in one behaviour.
MaxCalls == 2

\* A regular file of another base directory.
OtherFile == FileNode(SrcDev, 4, 104, 0)
\* The entries add_entry may be given for a relative path.
EntryNodes(rp) == {DirNode(0), SrcFile(rp), OtherFile, LinkNode("t_file", 0)}
\* A base directory holding nothing.
EmptyTree == [rp \in RelPaths |-> NoNode]

\* os.scandir reaches rp in tree: it is there, and every path above it is a
\* real directory (is_dir(follow_symlinks=False), line 91).
Scanned(tree, rp) ==
    /\ tree[rp].kind # "none"
    /\ \A q \in RelPaths : IsBelow(rp, q) => tree[q].kind = "dir"

IndexInit ==
    /\ pc = "idle"
    /\ src = EmptyTree
    /\ all = <<>>
    /\ \E pl \in PatternLists :
          includes = pl.inc /\ excludes = pl.exc /\ force_includes = pl.frc
    /\ destprefix = <<>>
    /\ always_copy = FALSE
    /\ remove_dest \in BOOLEAN
    /\ destdev = SrcDev
    /\ fs = DestTree(<<>>, SrcDev, DirNode(0), OldFile(SrcDev), NoNode)
    /\ pass = 0
    /\ attempt = 0
    /\ waits = <<>>
    /\ rmlog = <<>>
    /\ cursor = 0
    /\ ops = {}
    /\ before = fs
    /\ first = fs
    /\ calls = <<>>
    /\ last = EmptyTree
    /\ yielded = <<>>
    \* one process
    /\ race = <<>>
    /\ tpc = "off" /\ platform = "" /\ test_type = "" /\ bindir = {}
    /\ all_tests = {} /\ ran = {}
    \* no glob or predicate is evaluated on its own
    /\ gphase = "off" /\ glob = <<>> /\ relpath = <<>>
    /\ gres = FALSE /\ glob2 = <<>> /\ gres2 = FALSE
    /\ pphase = "off" /\ match_path = <<>> /\ pres = FALSE

\* PatternMatcher.add_basedir(basedir), lines 80-100, on an index that may
\* hold the entries of earlier calls
AddBasedirMerge ==
    /\ pc = "idle"
    /\ Len(calls) < MaxCalls
    /\ \E tree \in SrcTrees : \E order \in ScanOrders :
          /\ src' = tree
          /\ all' = DictSetAll(all, ScanChildren(tree, <<>>, order, 1))
          /\ last' = [rp \in RelPaths |->
                         IF Scanned(tree, rp) THEN tree[rp] ELSE last[rp]]
    /\ calls' = Append(calls, "add_basedir")
    /\ UNCHANGED <<pc, destprefix, always_copy, remove_dest, destdev, fs, pass,
                   attempt, waits, rmlog, cursor, ops, before, first, yielded,
                   gvars, pvars, lvars, rvars, tvars>>

\* PatternMatcher.add_entry(relpath, direntry), lines 102-103
AddEntry ==
    /\ pc = "idle"
    /\ Len(calls) < MaxCalls
    /\ \E rp \in RelPaths : \E e \in EntryNodes(rp) :
          /\ all' = DictSet(all, rp, e)
          /\ last' = [last EXCEPT ![rp] = e]
    /\ calls' = Append(calls, "add_entry")
    /\ UNCHANGED <<pc, src, destprefix, always_copy, remove_dest, destdev, fs,
                   pass, attempt, waits, rmlog, cursor, ops, before, first,
                   yielded, gvars, pvars, lvars, rvars, tvars>>

\* PatternMatcher.matches(), lines 105-108, run to exhaustion by a caller
RunMatches ==
    /\ pc = "idle"
    /\ yielded' = Selection(all, includes, excludes, force_includes)
    /\ UNCHANGED <<calls, last, fvars, gvars, pvars, lvars, rvars, tvars>>

IndexNext ==
    \/ AddBasedirMerge
    \/ AddEntry
    \/ RunMatches
    \/ CopyTo
    \/ RmtreeOk
    \/ RmtreePermissionError
    \/ RmtreeOtherError
    \/ MkdirDest
    \/ MaterializeNext
    \/ Return

SpecIndex == IndexInit /\ [][IndexNext]_vars

----------------------------------------------------------------------------
(* SpecRace: two processes run copy_to for one source file and one destdir *)

\* The processes; each holds a PatternMatcher with the same index.
Procs == {1, 2}

\* The base directory both scanned: the regular file c alone.
RaceTree == SrcTree(NoNode, NoNode, SrcFile(R_c))
\* The one selected entry and its destination path.
RaceEntry == SrcFile(R_c)
RacePath == DestPath(<<>>, R_c)
\* What destdir may hold at c when the processes start: nothing, an older
\* file, or the source's file itself, hardlinked by an earlier run.
RaceDestTrees ==
    {[p \in DestPaths |-> NoNode]} \cup
    {DestTree(<<>>, SrcDev, NoNode, NoNode, nc) :
        nc \in {NoNode, OldFile(SrcDev), SrcFile(R_c)}}

\* Everything of one PatternMatcher's copy_to but the tree at destdir.
fvarsButFs == <<pc, src, all, destprefix, always_copy, remove_dest, destdev,
                pass, attempt, waits, rmlog, cursor, ops, before, first>>

\* Process p moves on to l.
Goto(p, l) == race' = [race EXCEPT ![p] = l]

RaceInit ==
    /\ race = [p \in Procs |-> "mkroot"]
    /\ src = RaceTree
    /\ all = DictSetAll(<<>>, ScanChildren(RaceTree, <<>>, <<R_c>>, 1))
    /\ includes = <<>> /\ excludes = <<>> /\ force_includes = <<>>
    /\ destprefix = <<>>
    /\ always_copy = FALSE
    /\ remove_dest = FALSE
    /\ destdev = SrcDev
    /\ fs \in RaceDestTrees
    /\ pass = 1
    /\ attempt = 0
    /\ waits = <<>>
    /\ rmlog = <<>>
    /\ cursor = 1
    /\ ops = {}
    /\ before = fs
    /\ first = fs
    \* the single-process position is not in use
    /\ pc = "off"
    /\ calls = <<>> /\ last = <<>> /\ yielded = <<>>
    /\ tpc = "off" /\ platform = "" /\ test_type = "" /\ bindir = {}
    /\ all_tests = {} /\ ran = {}
    /\ gphase = "off" /\ glob = <<>> /\ relpath = <<>>
    /\ gres = FALSE /\ glob2 = <<>> /\ gres2 = FALSE
    /\ pphase = "off" /\ match_path = <<>> /\ pres = FALSE

\* Line 141: destdir.mkdir(parents=True, exist_ok=True)
RaceMkdirDest ==
    \E p \in Procs :
        /\ race[p] = "mkroot"
        /\ LET m == Mkdir(fs, Root, pass)
           IN fs' = m.fs /\ Goto(p, IF m.ok THEN "exists174" ELSE "raised")
        /\ UNCHANGED <<fvarsButFs, gvars, pvars, lvars, ivars, tvars>>

\* Lines 174-175: destpath.exists() and not always_copy
RaceExists174 ==
    \E p \in Procs :
        /\ race[p] = "exists174"
        /\ Goto(p, IF PathExists(fs, RacePath) /\ ~always_copy
                   THEN "stat176" ELSE "exists186")
        /\ UNCHANGED <<fs, fvarsButFs, gvars, pvars, lvars, ivars, tvars>>

\* Line 176: os.stat(destpath).st_ino == os.stat(direntry.path).st_ino, then
\* `continue` (the loop ends, copy_to returns) or on to line 186
RaceStat176 ==
    \E p \in Procs :
        /\ race[p] = "stat176"
        /\ Goto(p, IF ~PathExists(fs, RacePath) THEN "raised"   \* FileNotFoundError
                   ELSE IF ShouldSkip(fs, RaceEntry, RacePath, always_copy)
                        THEN "done"
                   ELSE "exists186")
        /\ UNCHANGED <<fs, fvarsButFs, gvars, pvars, lvars, ivars, tvars>>

\* Line 186: not remove_dest and (destpath.exists() or destpath.is_symlink())
RaceExists186 ==
    \E p \in Procs :
        /\ race[p] = "exists186"
        /\ Goto(p, IF ~remove_dest /\ (PathExists(fs, RacePath)
                                         \/ PathIsSymlink(fs, RacePath))
                   THEN "unlink188" ELSE "mkdir190")
        /\ UNCHANGED <<fs, fvarsButFs, gvars, pvars, lvars, ivars, tvars>>

\* Line 188: os.unlink(destpath)
RaceUnlink188 ==
    \E p \in Procs :
        /\ race[p] = "unlink188"
        /\ LET u == Unlink(fs, RacePath)
           IN fs' = u.fs /\ Goto(p, IF u.ok THEN "mkdir190" ELSE "raised")
        /\ UNCHANGED <<fvarsButFs, gvars, pvars, lvars, ivars, tvars>>

\* Line 190: destpath.parent.mkdir(parents=True, exist_ok=True)
RaceMkdir190 ==
    \E p \in Procs :
        /\ race[p] = "mkdir190"
        /\ LET m == Mkdir(fs, Parent(RacePath), pass)
           IN fs' = m.fs /\ Goto(p, IF m.ok THEN "link201" ELSE "raised")
        /\ UNCHANGED <<fvarsButFs, gvars, pvars, lvars, ivars, tvars>>

\* Lines 192-207: os.link, its OSError caught
RaceLink201 ==
    \E p \in Procs :
        /\ race[p] = "link201"
        /\ LET l == Link(fs, RaceEntry, RacePath, destdev, pass)
           IN fs' = l.fs /\ Goto(p, IF l.ok THEN "done" ELSE "copy216")
        /\ UNCHANGED <<fvarsButFs, gvars, pvars, lvars, ivars, tvars>>

\* Lines 208-216: shutil.copy2 after a failed link
RaceCopy216 ==
    \E p \in Procs :
        /\ race[p] = "copy216"
        /\ LET c == Copy(fs, RaceEntry, RacePath, destdev, pass)
           IN fs' = c.fs /\ Goto(p, IF c.ok THEN "done" ELSE "raised")
        /\ UNCHANGED <<fvarsButFs, gvars, pvars, lvars, ivars, tvars>>

RaceNext ==
    \/ RaceMkdirDest
    \/ RaceExists174
    \/ RaceStat176
    \/ RaceExists186
    \/ RaceUnlink188
    \/ RaceMkdir190
    \/ RaceLink201
    \/ RaceCopy216

SpecRace == RaceInit /\ [][RaceNext]_vars

----------------------------------------------------------------------------
(* SpecTests: external-builds/llama.cpp/llamacpp_test.py, main *)

\* A file name is a sequence of pieces, "." a piece of its own: test-log.exe
\* is <<"test-", "log", ".", "exe">>.
T(x) == <<"test-", x>>
Exe(n) == n \o <<".", "exe">>

\* Most files in LLAMA_BIN_DIR.
MaxFiles == 3

TESTS_TO_IGNORE ==
    { T("tokenizer-1-spm"), T("gbnf-validator"), T("json-schema-to-grammar"),
      T("quantize-stats"), T("tokenizer-0"), T("chat"), T("tokenizer-1-bpe"),
      T("thread-safety") }

SMOKE_TESTS ==
    { T("llama-grammar"), T("arg-parser"), T("log"), T("c"), T("alloc"),
      T("gguf") }

\* The programs a build may leave in the bin directory, by base name.
Programs == {T("log"), T("c"), T("chat"), T("backend-ops"), <<"llama-cli">>}
\* The file a program is built as on a platform.
Built(plat, n) == IF plat = "posix" THEN n ELSE Exe(n)
\* The bin directories of a platform.
BinDirs(plat) ==
    {{Built(plat, n) : n \in P} :
        P \in {Q \in SUBSET Programs : Cardinality(Q) <= MaxFiles}}

\* PurePath.name and PurePath.stem of a file name
Name(n) == n
Stem(n) ==
    LET dots == {i \in 2..(Len(n) - 1) : n[i] = "."}
    IN IF dots = {} THEN n
       ELSE SubSeq(n, 1, (CHOOSE i \in dots : \A j \in dots : j <= i) - 1)

\* Line 74
Pattern(plat) == IF plat # "posix" THEN "test-*.exe" ELSE "test-*"

\* Path.glob: the names of dir the pattern matches
Glob(dir, pat) ==
    {n \in dir :
        /\ n[1] = "test-"
        /\ pat = "test-*.exe" =>
              Len(n) >= 3 /\ n[Len(n) - 1] = "." /\ n[Len(n)] = "exe"}

\* Lines 75-80: all_tests as main selects it
SelectTests(plat, tt, dir) ==
    LET found == {n \in Glob(dir, Pattern(plat)) : Stem(n) \notin TESTS_TO_IGNORE}
    IN IF tt = "smoke" THEN {t \in found : Name(t) \in SMOKE_TESTS} ELSE found

TInit ==
    /\ tpc = "start"
    /\ platform \in {"posix", "nt"}
    /\ test_type \in {"full", "smoke"}
    /\ bindir \in BinDirs(platform)
    /\ all_tests = {}
    /\ ran = {}
    \* no PatternMatcher, glob or predicate is in use
    /\ gphase = "off" /\ glob = <<>> /\ relpath = <<>>
    /\ gres = FALSE /\ glob2 = <<>> /\ gres2 = FALSE
    /\ pphase = "off" /\ includes = <<>> /\ excludes = <<>>
    /\ force_includes = <<>> /\ match_path = <<>> /\ pres = FALSE
    /\ pc = "off" /\ src = <<>> /\ all = <<>> /\ destprefix = <<>>
    /\ always_copy = FALSE /\ remove_dest = FALSE /\ destdev = 0 /\ fs = <<>>
    /\ pass = 0 /\ attempt = 0 /\ waits = <<>> /\ rmlog = <<>> /\ cursor = 0
    /\ ops = {} /\ before = <<>> /\ first = <<>>
    /\ calls = <<>> /\ last = <<>> /\ yielded = <<>> /\ race = <<>>

\* Lines 73-85: main selects the tests, and warns and returns if there is none
Main ==
    /\ tpc = "start"
    /\ all_tests' = SelectTests(platform, test_type, bindir)
    /\ tpc' = IF all_tests' = {} THEN "warned" ELSE "running"
    /\ UNCHANGED <<platform, test_type, bindir, ran,
                   gvars, pvars, lvars, fvars, ivars, rvars>>

\* Lines 87-94: the next test of the list is run, and passes or fails; the
\* list is in the order the directory gave the names in
RunTest ==
    /\ tpc = "running"
    /\ \E t \in all_tests \ ran : \E passed \in BOOLEAN :
          /\ ran' = ran \cup {t}
          /\ tpc' = IF passed THEN "running" ELSE "raised"
    /\ UNCHANGED <<platform, test_type, bindir, all_tests,
                   gvars, pvars, lvars, fvars, ivars, rvars>>

\* Line 96: every selected test has run and passed
Finished ==
    /\ tpc = "running"
    /\ ran = all_tests
    /\ tpc' = "finished"
    /\ UNCHANGED <<platform, test_type, bindir, all_tests, ran,
                   gvars, pvars, lvars, fvars, ivars, rvars>>

TNext ==
    \/ Main
    \/ RunTest
    \/ Finished

SpecTests == TInit /\ [][TNext]_vars

----------------------------------------------------------------------------
(* Reference meanings the claims are stated against *)

RECURSIVE WildMatch(_, _)
\* g, a glob without recursive components, read with `*` and `?` both as
\* "any run of zero or more characters other than the separator".
WildMatch(g, s) ==
    IF g = <<>> THEN s = <<>>
    ELSE IF Head(g) \in {"*", "?"}
         THEN \/ WildMatch(Tail(g), s)
              \/ s # <<>> /\ Head(s) # "/" /\ WildMatch(g, Tail(s))
    ELSE s # <<>> /\ Head(s) = Head(g) /\ WildMatch(Tail(g), Tail(s))

StarStar == <<"*", "*">>

RECURSIVE SegmentsMatch(_, _)
\* comps against segs, every `**` component standing for zero or more
\* complete segments and every other component for exactly one segment.
SegmentsMatch(comps, segs) ==
    IF comps = <<>> THEN segs = <<>>
    ELSE IF Head(comps) = StarStar
         THEN \/ SegmentsMatch(Tail(comps), segs)
              \/ segs # <<>> /\ SegmentsMatch(comps, Tail(segs))
    ELSE segs # <<>> /\ WildMatch(Head(comps), Head(segs))
         /\ SegmentsMatch(Tail(comps), Tail(segs))

IsLiteral(c) == c # <<>> /\ \A i \in 1..Len(c) : c[i] \notin {"*", "?", "/"}

\* g is built from literal segments and `**` components, every `**` being a
\* leading `**/`, an infix `/**/` or a trailing `/**`.
IsLitStarGlob(g) ==
    LET cs == Split(g) IN
    /\ \A i \in 1..Len(cs) : cs[i] = StarStar \/ IsLiteral(cs[i])
    /\ \E i \in 1..Len(cs) : cs[i] = StarStar
    /\ Len(cs) >= 2

\* Some swapped `?` of g lies in a component of g2 that is exactly `**`
\* next to a separator.
SwapMakesStarStar(g, g2) ==
    LET cs == Split(g)
        cs2 == Split(g2)
    IN Len(cs2) >= 2 /\ \E i \in 1..Len(cs2) : cs2[i] = StarStar /\ cs[i] # StarStar

----------------------------------------------------------------------------
(* Claims *)

\* C1: MatchPredicate.matches(P) equals the cascade: accept if some
\* force-include pattern matches P (even when an exclude pattern matches
\* too); otherwise reject if includes is non-empty and no include pattern
\* matches; otherwise reject if some exclude pattern matches; otherwise
\* accept. With all three lists empty every P is accepted.
C1_Cascade ==
    pphase = "done" =>
        LET hit(ps) == \E i \in 1..Len(ps) : GlobMatches(ps[i], match_path)
        IN /\ hit(force_includes) => pres = TRUE
           /\ (~hit(force_includes) /\ includes # <<>> /\ ~hit(includes))
                 => pres = FALSE
           /\ (~hit(force_includes) /\ (includes = <<>> \/ hit(includes))
                 /\ hit(excludes)) => pres = FALSE
           /\ (~hit(force_includes) /\ (includes = <<>> \/ hit(includes))
                 /\ ~hit(excludes)) => pres = TRUE
           /\ (includes = <<>> /\ excludes = <<>> /\ force_includes = <<>>)
                 => pres = TRUE

\* C1 witness: a path that a force-include pattern and an exclude pattern
\* both match has been evaluated and accepted.
C1_Witness ==
    /\ pphase = "done"
    /\ pres = TRUE
    /\ \E i \in 1..Len(force_includes) : GlobMatches(force_includes[i], match_path)
    /\ \E i \in 1..Len(excludes) : GlobMatches(excludes[i], match_path)
    /\ includes # <<>>

\* C2: in a compiled RecursiveGlobPattern every `**` path component (leading
\* `**/`, infix `/**/`, trailing `/**`) matches zero or more complete
\* directory segments and never part of a segment, for every glob built from
\* literal segments and `**` components, several `**` components included.
C2_StarStarSegments ==
    (gphase = "matched" /\ IsLitStarGlob(glob)) =>
        gres = SegmentsMatch(Split(glob), Split(relpath))

\* C3 as stated: a glob and the glob obtained by swapping any `?` for `*`
\* accept exactly the same paths.
C3_SwapAlwaysSame ==
    gphase = "swapped" => gres = gres2

\* C3 amended: `?` is compiled like an intra-segment `*` (any run of zero or
\* more characters other than `/`), and a glob and the glob obtained by
\* swapping `?` for `*` accept the same paths unless the swap turns a path
\* component into `**`.
C3_SwapSameUnlessStarStar ==
    /\ (gphase = "swapped" /\ ~SwapMakesStarStar(glob, glob2)) => gres = gres2
    /\ (gphase = "matched" /\ \A i \in 1..Len(glob) : glob[i] # "*")
          => gres = WildMatch(glob, relpath)

\* C3 witness: `a?b` and `a*b` have both accepted `axyb`.
C3_Witness ==
    /\ gphase = "swapped"
    /\ glob = G_aqb
    /\ relpath = P_axyb
    /\ gres = TRUE
    /\ gres2 = TRUE

----------------------------------------------------------------------------
(* Claims about copy_to *)

\* The index entries the predicate accepts, and where copy_to puts them.
SelectedEntries ==
    {all[i] : i \in {j \in 1..Len(all) :
        PredicateMatches(includes, excludes, force_includes, all[j].path)}}
SelectedDest == {DestPath(destprefix, x.path) : x \in SelectedEntries}
\* The paths below destdir that hold something.
Present(f) == {p \in DestPaths \ {Root} : f[p].kind # "none"}
\* The directories above the paths of P, below destdir.
Ancestors(P) == {q \in DestPaths \ {Root} : \E p \in P : IsBelow(p, q)}
\* The node is an object of the entry's kind: a directory, a symlink with the
\* same target string, or a regular file with the source's content.
HoldsEntry(n, e) ==
    IF e.kind = "dir" THEN n.kind = "dir"
    ELSE IF e.kind = "symlink" THEN n.kind = "symlink" /\ n.target = e.target
    ELSE n.kind = "file" /\ n.data = e.data
\* A tree, leaving aside which call created each name.
Content(f) == [p \in DestPaths |-> [f[p] EXCEPT !.born = 0]]
\* The operations this call performed for a relative path.
OpsFor(rp) == {o[2] : o \in {q \in ops : q[1] = rp}}

\* C4 as stated: after a successful copy_to with remove_dest=True the entries
\* under destdir are exactly the selected ones, none else.
C4_ExactlySelected ==
    (pc = "done" /\ remove_dest) => Present(fs) = SelectedDest

\* C4 amended: after a successful copy_to with remove_dest=True the entries
\* under destdir are exactly the selected ones, each at
\* destdir/(destprefix + relpath) as an object of its kind, together with the
\* parent directories of those paths, which copy_to creates whether or not
\* they are selected.
C4_SelectedAndParents ==
    (pc = "done" /\ remove_dest) =>
        /\ Present(fs) = SelectedDest \cup Ancestors(SelectedDest)
        /\ \A x \in SelectedEntries : HoldsEntry(fs[DestPath(destprefix, x.path)], x.e)
        /\ \A q \in Ancestors(SelectedDest) : fs[q].kind = "dir"

\* C4 witness: a reset call has returned, older content was there before, and
\* a/b was selected without a.
C4_Witness ==
    /\ pc = "done" /\ remove_dest
    /\ before[R_z].kind = "file"
    /\ R_ab \in {x.path : x \in SelectedEntries}
    /\ R_a \notin {x.path : x \in SelectedEntries}
    /\ fs[DestPath(destprefix, R_a)].kind = "dir"

\* The first call left every selected regular file as a hardlink of its source.
FirstPassHardlinked ==
    \A x \in SelectedEntries :
        EntryBranch(x.e) = "file" =>
            LET n == first[DestPath(destprefix, x.path)]
            IN n.kind = "file" /\ n.dev = SrcDev /\ n.ino = x.e.ino

\* C5: a second copy_to with remove_dest=False and always_copy=False, after a
\* first one that hardlinked every regular file, returns, leaves the
\* destination as the first left it, and performs no unlink, link or copy for
\* any selected regular file: each is skipped.
C5_SecondPassIdempotent ==
    (pass = 2 /\ ~remove_dest /\ ~always_copy /\ FirstPassHardlinked) =>
        /\ pc # "raised"
        /\ \A x \in SelectedEntries :
              EntryBranch(x.e) = "file" => OpsFor(x.path) \subseteq {"skip"}
        /\ pc = "done" =>
              /\ Content(fs) = Content(first)
              /\ \A x \in SelectedEntries :
                    EntryBranch(x.e) = "file" => OpsFor(x.path) = {"skip"}

\* C5 witness: such a second call has returned and skipped a regular file,
\* beside a symlink it recreated.
C5_Witness ==
    /\ pass = 2 /\ pc = "done" /\ ~remove_dest /\ ~always_copy
    /\ FirstPassHardlinked
    /\ <<R_ab, "skip">> \in ops
    /\ <<R_c, "symlink">> \in ops

\* C6: copy_to skips a selected regular file only when the destination is the
\* same underlying file as the source (same device and same inode), so that
\* after a skip the destination's content is the source's.
C6_SkipOnlySameFile ==
    \A x \in SelectedEntries :
        "skip" \in OpsFor(x.path) =>
            LET n == fs[DestPath(destprefix, x.path)]
            IN n.kind = "file" /\ n.dev = SrcDev /\ n.ino = x.e.ino
               /\ n.data = x.e.data

\* C7: the removal of destdir is attempted at most 5 times, only with
\* remove_dest=True and destdir existing; an attempt follows only attempts
\* that failed with permission-denied; any other failure propagates at once;
\* a 5th permission-denied failure propagates, and then no entry has been
\* materialized.
C7_BoundedRetry ==
    /\ Len(rmlog) <= MaxAttempts
    /\ \A k \in 1..(Len(rmlog) - 1) : rmlog[k] = "perm"
    /\ rmlog # <<>> => remove_dest /\ before[Root].kind # "none"
    /\ (rmlog # <<>> /\ rmlog[Len(rmlog)] = "other") => pc = "raised"
    /\ (Len(rmlog) = MaxAttempts /\ rmlog[Len(rmlog)] = "perm") =>
          /\ pc = "raised"
          /\ ops = {}
          /\ \A p \in DestPaths : fs[p] \in {NoNode, before[p]}
    /\ (pc \in {"mkroot", "entries", "done"} /\ remove_dest
           /\ before[Root].kind # "none") =>
          rmlog # <<>> /\ rmlog[Len(rmlog)] = "ok"

\* C7 witness: five attempts have failed with permission-denied and the call
\* has raised.
C7_Witness ==
    /\ pc = "raised"
    /\ rmlog = <<"perm", "perm", "perm", "perm", "perm">>

\* C8: the wait after the k-th failed attempt is 0.2*(k+1), which gives the
\* delays 0.4, 0.6, 0.8, 1.0 across the 4 retries, after which the failure
\* propagates; two failures and a success cost 0.4 + 0.6 and the call goes on.
C8_WaitSchedule ==
    /\ \A k \in 1..Len(waits) : waits[k] = RetryDelayTenths * (k + 1)
    /\ Len(waits) <= MaxAttempts - 1
    /\ (pc = "raised" /\ Len(rmlog) = MaxAttempts /\ rmlog[MaxAttempts] = "perm")
          => waits = <<4, 6, 8, 10>>
    /\ rmlog = <<"perm", "perm", "ok">> => (waits = <<4, 6>> /\ pc # "raised")

\* C9: whenever copy_to with remove_dest=True returns normally, nothing that
\* was under destdir before the call and is not part of the selection is
\* there afterwards, and destdir exists.
C9_ResetRemovesUnrelated ==
    (pc = "done" /\ remove_dest) =>
        /\ fs[Root].kind = "dir"
        /\ \A p \in DestPaths \ {Root} :
              (before[p].kind # "none" /\ p \notin SelectedDest) =>
                  (fs[p].kind = "none" \/ fs[p].born = pass)

\* C9 witness: a reset call has returned after a failed removal attempt, with
\* older unselected files at z and below a gone.
C9_Witness ==
    /\ pc = "done" /\ remove_dest
    /\ Len(rmlog) >= 2
    /\ before[R_z].kind = "file" /\ fs[R_z].kind = "none"
    /\ before[DestPath(destprefix, R_ab)].kind = "file"
    /\ DestPath(destprefix, R_ab) \notin SelectedDest
    /\ fs[DestPath(destprefix, R_ab)].kind = "none"

\* C10: every selected source symlink, whatever its target resolves to, is
\* materialized as a symlink with the source link's literal target string, by
\* a symlink call and never by mkdir, link or copy, for both values of
\* remove_dest and always_copy; and the scan does not recurse into it.
C10_SymlinkFidelity ==
    /\ \A x \in SelectedEntries :
          x.e.kind = "symlink" =>
              LET n == fs[DestPath(destprefix, x.path)] IN
              /\ OpsFor(x.path) \subseteq {"unlink", "symlink"}
              /\ (pass > 0 /\ n.born = pass) => n = LinkNode(x.e.target, pass)
              /\ pc = "done" =>
                    n = LinkNode(x.e.target, pass) /\ "symlink" \in OpsFor(x.path)
    /\ \A i \in 1..Len(all) : \A j \in 1..Len(all) :
          all[i].e.kind = "symlink" => ~IsBelow(all[j].path, all[i].path)

\* C10 witness: a link to a directory with content behind it and a link to a
\* missing target have both been materialized over older content.
C10_Witness ==
    /\ pc = "done" /\ ~remove_dest
    /\ src[R_a] = LinkNode("t_dir", 0) /\ src[R_ab].kind = "file"
    /\ fs[DestPath(destprefix, R_a)] = LinkNode("t_dir", pass)
    /\ before[DestPath(destprefix, R_a)].kind = "file"
    /\ R_a \in {x.path : x \in SelectedEntries}

\* The selection in iteration order, and where its j-th entry goes.
Sel == Selection(all, includes, excludes, force_includes)
DestOf(j) == DestPath(destprefix, Sel[j].path)
\* The operations that leave an entry's destination path settled.
Settling == {"mkdir", "symlink", "link", "copy", "skip"}
\* copy_to stands in, or raised from, the loop over the selection.
InLoop == pc = "entries" \/ (pc = "raised" /\ (rmlog = <<>> \/ rmlog[Len(rmlog)] = "ok"))

\* C11, what holds in every state: entries are taken in iteration order, so
\* those before the cursor are settled and those after it untouched (no
\* operation, and at the destination what the call found there, or nothing
\* after a reset); a call that returned settled the whole selection; a call
\* that raised in the loop stopped at the entry that failed.
C11_State ==
    /\ (InLoop \/ pc = "done") =>
          /\ cursor \in 1..(Len(Sel) + 1)
          /\ \A j \in 1..Len(Sel) :
                /\ j < cursor => OpsFor(Sel[j].path) \cap Settling # {}
                /\ j > cursor =>
                      /\ OpsFor(Sel[j].path) = {}
                      /\ \/ fs[DestOf(j)] = before[DestOf(j)]
                         \/ remove_dest /\ fs[DestOf(j)] = NoNode
    /\ pc = "done" => cursor = Len(Sel) + 1
    /\ (InLoop /\ pc = "raised") =>
          /\ cursor \in 1..Len(Sel)
          /\ OpsFor(Sel[cursor].path) \cap Settling = {}

\* C11, what holds of every step of the loop: it works on the entry at the
\* cursor alone, leaving the destination of every other selected entry as it
\* is (nothing after it is touched, nothing before it is rolled back); it
\* moves the cursor on by one or raises; and nothing happens after a raise.
C11_Step ==
    /\ pc # "raised"
    /\ pc = "entries" =>
          /\ \A j \in 1..Len(Sel) : j # cursor => fs'[DestOf(j)] = fs[DestOf(j)]
          /\ \A o \in ops' \ ops : o[1] = Sel[cursor].path
          /\ \/ pc' = "entries" /\ cursor' = cursor + 1
             \/ pc' = "raised" /\ cursor' = cursor
             \/ pc' = "done" /\ cursor' = cursor /\ fs' = fs /\ ops' = ops

\* C11: copy_to processes the selected entries in selection iteration order and
\* either materializes the full selection or aborts with the first error: the
\* error is raised at once, no entry after the failing one is created, removed
\* or modified at the destination, and the entries before it stay as
\* materialized.
C11_AbortAtFirstError == [](C11_State) /\ [][C11_Step]_vars

\* C11 witness: the second of three selected entries failed over older
\* content; the first has been materialized, the third's older file is as it
\* was.
C11_Witness ==
    /\ pc = "raised" /\ InLoop /\ ~remove_dest
    /\ Len(Sel) = 3 /\ cursor = 2
    /\ OpsFor(Sel[1].path) \cap Settling # {}
    /\ HoldsEntry(fs[DestOf(1)], Sel[1].e)
    /\ before[DestOf(3)].kind = "file" /\ fs[DestOf(3)] = before[DestOf(3)]

----------------------------------------------------------------------------
(* Claims about the index *)

\* The relative paths the index holds.
IndexPaths == {all[i].path : i \in 1..Len(all)}

\* C12, what holds in every state: no relative path is held twice, the paths
\* held are those inserted so far, and each is held with the entry of its
\* most recent insertion.
C12_State ==
    /\ \A i \in 1..Len(all) : \A j \in 1..Len(all) :
          i # j => all[i].path # all[j].path
    /\ \A rp \in RelPaths :
          IF last[rp] = NoNode THEN rp \notin IndexPaths
          ELSE \E i \in 1..Len(all) : all[i] = [path |-> rp, e |-> last[rp]]
    /\ IndexPaths \subseteq RelPaths

\* C12, what holds of every step: only an insertion call changes the index;
\* a run of matches() and every step of copy_to leave it as it is.
C12_Step == calls' = calls => all' = all

\* C12: after any sequence of add_basedir and add_entry calls the index holds
\* exactly one entry per relative path, the one of the most recent insertion
\* for that path; matches() and copy_to never add, remove or replace entries.
C12_LastInsertionWins == [](C12_State) /\ [][C12_Step]_vars

\* C12 witness: two base directories were merged, the second holding a file
\* where the first held a directory, the index holds the file for it, and
\* matches() has run over the merged index.
C12_Witness ==
    /\ calls = <<"add_basedir", "add_basedir">>
    /\ src[R_a].kind = "file"
    /\ R_ab \in IndexPaths
    /\ \E i \in 1..Len(all) : all[i].path = R_a /\ all[i].e.kind = "file"
    /\ yielded = all

\* C15: after add_basedir calls alone, over any source trees, every indexed
\* path p/c has p indexed too, with a real directory as p's current entry.
C15_ParentsAreDirectories ==
    (\A k \in 1..Len(calls) : calls[k] = "add_basedir") =>
        \A i \in 1..Len(all) :
            \A q \in RelPaths :
                IsBelow(all[i].path, q) =>
                    \E j \in 1..Len(all) : all[j].path = q /\ all[j].e.kind = "dir"

----------------------------------------------------------------------------
(* Claims about copy_to: hardlink, copy, overwrite *)

\* C13: for every selected regular file that the identity check does not skip,
\* a hardlink is attempted if and only if always_copy is false, and a copy is
\* made if and only if always_copy is true or the hardlink attempt failed; a
\* failed hardlink attempt never ends the call, the copy follows it. A linked
\* destination is the source's own file, a copied one a new file of the
\* destination's device with the source's content.
C13_LinkThenCopy ==
    \A j \in 1..Len(Sel) :
        EntryBranch(Sel[j].e) = "file" =>
            LET o == OpsFor(Sel[j].path)
                e == Sel[j].e
                n == fs[DestOf(j)]
            IN /\ o \cap {"link", "linkfail"} # {} => ~always_copy
               /\ "copy" \in o => (always_copy \/ "linkfail" \in o)
               /\ "linkfail" \in o =>
                     /\ "copy" \in o
                     /\ "link" \notin o
                     /\ ~(pc = "raised" /\ cursor = j)
               /\ "link" \in o => "copy" \notin o
               /\ (j < cursor /\ "skip" \notin o) =>
                     /\ ~always_copy => o \cap {"link", "linkfail"} # {}
                     /\ always_copy => "copy" \in o
                     /\ o \cap {"link", "copy"} # {}
                     /\ "link" \in o => n = FileNode(SrcDev, e.ino, e.data, pass)
                     /\ "copy" \in o => n = FileNode(destdev, CopyIno(e), e.data, pass)

\* C13 witness: on another volume with always_copy off, the hardlink attempt
\* for c failed, the copy was made in its place, and the call returned.
C13_Witness ==
    /\ pc = "done" /\ ~always_copy /\ destdev # SrcDev
    /\ <<R_c, "linkfail">> \in ops
    /\ <<R_c, "copy">> \in ops
    /\ fs[DestPath(destprefix, R_c)].data = src[R_c].data
    /\ src[R_c].kind = "file"

\* C14: with remove_dest=False, whatever object occupies a selected entry's
\* destination path (regular file, symlink, dangling symlink or directory) is
\* replaced: the entry does not make copy_to raise, and once it is processed
\* its destination path holds an object of the entry's kind. (Entries the
\* identity check skips are left aside.)
C14_PathByPathOverwrite ==
    (~remove_dest /\ pass > 0) =>
        \A j \in 1..Len(Sel) :
            (before[DestOf(j)].kind # "none" /\ "skip" \notin OpsFor(Sel[j].path)) =>
                /\ ~(pc = "raised" /\ cursor = j)
                /\ j < cursor => HoldsEntry(fs[DestOf(j)], Sel[j].e)

\* C16: two processes running copy_to with remove_dest=False and
\* always_copy=False for the same source file and destination path on one
\* volume: in every interleaving neither call raises, and once both have
\* returned the destination path holds the source's content.
C16_ConcurrentCopySafe ==
    /\ \A p \in Procs : race[p] # "raised"
    /\ (\A p \in Procs : race[p] = "done") =>
          /\ fs[RacePath].kind = "file"
          /\ fs[RacePath].data = RaceEntry.data

----------------------------------------------------------------------------
(* Claims about the llama.cpp test runner *)

\* A test's name: the file name without the platform's `.exe` suffix.
TestName(plat, n) ==
    IF plat # "posix" /\ Len(n) >= 3 /\ n[Len(n) - 1] = "." /\ n[Len(n)] = "exe"
    THEN SubSeq(n, 1, Len(n) - 2)
    ELSE n
\* The test-* binaries of the directory.
Discovered(plat, dir) ==
    {n \in dir : n[1] = "test-" /\ (plat # "posix" => TestName(plat, n) # n)}
\* The tests each mode is to run.
ExpectedTests(plat, tt, dir) ==
    LET full == {n \in Discovered(plat, dir) : TestName(plat, n) \notin TESTS_TO_IGNORE}
    IN IF tt = "smoke" THEN {n \in full : TestName(plat, n) \in SMOKE_TESTS}
       ELSE full

\* C17: on both platforms main selects, in full mode, exactly the discovered
\* test-* binaries whose test name is not in TESTS_TO_IGNORE and, in smoke
\* mode, exactly those of them whose test name is in SMOKE_TESTS; it warns
\* and returns without running anything only when there is no such binary;
\* and when every test passes, exactly the selected ones were run.
C17_SameSelectionOnBothPlatforms ==
    tpc \in {"running", "warned", "finished", "raised"} =>
        LET expected == ExpectedTests(platform, test_type, bindir)
        IN /\ all_tests = expected
           /\ tpc = "warned" <=> expected = {}
           /\ tpc = "warned" => ran = {}
           /\ tpc = "finished" => ran = expected

====
